---------------------------- MODULE Spec2Model ----------------------------
(***************************************************************************)
(* A model of resourcely's tiered resource readers.                        *)
(*                                                                         *)
(*   base.rs    ResourceState (one cache slot behind one RwLock) and the   *)
(*              two readers built on it, DefaultLocalResourceReader and    *)
(*              DefaultRemoteResourceReader, with the derived operations   *)
(*              get_data_or_default / get_data_or_none;                    *)
(*   remote.rs  the earlier Remote<T> reader (seconds since the epoch as   *)
(*              u64, the stale flag behind a lock of its own);             *)
(*   utilities.rs  the directory scan, the two parsers and the disk write. *)
(*                                                                         *)
(* Time is counted in whole seconds.  A value of type T is a small         *)
(* integer; T::default() is DefaultValue.  Option::None is None.           *)
(***************************************************************************)
EXTENDS Integers, Sequences, FiniteSets, TLC

\* ------------------------------------------------------------------ bounds
MaxTime == 2
MaxTTL == 1
MaxFiles == 1
NumValues == 2
NumCallers == 2

\* --------------------------------------------------------------- constants
None == -1
DefaultValue == 0

Values == 1..NumValues
Callers == 1..NumCallers
\* The callers of the sequential specification: one call at a time, the
\* clock and mark_as_stale moving freely in between and during the fetch.
Sequential == {1}
Times == 0..MaxTime
Timeouts == {None} \cup (1..MaxTTL)
Readers == {"local", "remote", "legacy"}
ResourceFileType == {"Json", "Yaml", "Toml", "Text"}

\* The modulus of a wrapping u64 subtraction.  TLC's integers are 32 bits
\* wide, so the modulus is scaled down; it stays far above every time and
\* every timeout of the model, as 2^64 does above those of the program.
U64Modulus == 2^20

VARIABLES
    reader,       \* which reader serves the resource
    file_type,    \* ResourceProps.file_type / Remote.file_type
    timeout,      \* ResourceProps.timeout / Remote.timeout: None or seconds
    now,          \* SystemTime::now(), in seconds
    cache,        \* the slot: [data, is_stale, timestamp]
    lock,         \* the slot's RwLock: "free", "poisoned" or "held"
    disk,         \* the files of the storage directory that start with the
                  \* prefix, in directory-scan order: [stamp, val]
    pc,           \* per caller: "idle", "fetching", "hung", "blocked"
    call,         \* per caller: the locals of its get_data_or_error
    ret,          \* what the operation that just ended handed to its caller
    mark_done,    \* history: some mark_as_stale call has returned
    past          \* history, kept by the specification of the slot's
                  \* interleavings alone: the slot as each completed write
                  \* or mark left it, the slot's first content included

vars == <<reader, file_type, timeout, now, cache, lock, disk, pc, call, ret,
          mark_done, past>>

\* ------------------------------------------------------------- the records
\* Cache<T>: data is None or a value.
Cache(data, is_stale, timestamp) ==
    [data |-> data, is_stale |-> is_stale, timestamp |-> timestamp]

\* A file of the storage directory whose name starts with the prefix.
\* stamp is the number between the last '-' and the first '.' of its name,
\* None when that text is no number (as for the file named exactly like the
\* prefix, the one save_to_disk_override writes).  val is the value its
\* content deserializes to, None when it does not deserialize.
File(stamp, val) == [stamp |-> stamp, val |-> val]

Files == [stamp : Times \cup {None}, val : Values \cup {None}]

RECURSIVE SeqsUpTo(_, _)
SeqsUpTo(S, n) ==
    IF n = 0 THEN {<<>>}
    ELSE LET shorter == SeqsUpTo(S, n - 1)
         IN  shorter \cup {Append(s, x) : s \in {q \in shorter : Len(q) = n - 1}, x \in S}

PlainCount(d) == Cardinality({i \in 1..Len(d) : d[i].stamp = None})

\* Directory listings: at most MaxFiles files, at most one of them the file
\* named exactly like the prefix (a directory holds a name once).
Listings == {d \in SeqsUpTo(Files, MaxFiles) : PlainCount(d) <= 1}

\* The locals get_data_or_error keeps across the network fetch: the stale
\* candidates of memory and disk with their timestamps, the clock read on
\* entry (Remote only), and the value handed to set_internal_cache (fresh).
\* after_mark is history: a mark_as_stale had returned when the call began.
IdleCall ==
    [allow_stale |-> FALSE, mem |-> None, mem_ts |-> None,
     dsk |-> None, dsk_ts |-> None, now0 |-> None,
     after_mark |-> FALSE, fresh |-> None]

NoCandidates == [mem |-> None, mem_ts |-> None, dsk |-> None, dsk_ts |-> None]

\* What an operation that ended handed to its caller.
\*   op       "get" (base.rs readers), "legacy_get" (Remote), "mark"
\*   kind     "Fresh" | "Stale" | "Err" | "Panic" | "Unit" | "NoRet"
\*   err      the kind of error: "CacheLock", "StaleInternalNone" (no fresh
\*            or stale data available), "FreshingData" (failed to fetch),
\*            "Io" (the disk write failed)
\*   via      the tier the value came from: "memory", "disk", "refresh"
\*   refresh  "none": the call ended before its refresh (disk load of the
\*            local reader, network fetch of the remote ones); "failed": the
\*            refresh brought no value; "ok": it brought one
\*   mem .. dsk_ts  the stale candidates the call had collected
\*   or_default, or_none  what get_data_or_default and get_data_or_none
\*            hand over for this result
NoRet ==
    [op |-> "", kind |-> "NoRet", val |-> None, err |-> "",
     via |-> "", allow_stale |-> FALSE, after_mark |-> FALSE,
     refresh |-> "none", mem |-> None, mem_ts |-> None, dsk |-> None,
     dsk_ts |-> None, or_default |-> None, or_none |-> None]

Res(kind, val, err, via) == [kind |-> kind, val |-> val, err |-> err, via |-> via]

Fresh(v, via) == Res("Fresh", v, "", via)
Stale(v, via) == Res("Stale", v, "", via)
Err(e) == Res("Err", None, e, "")

\* Option<(value, is_fresh, timestamp)>
NoEntry == [some |-> FALSE, data |-> None, fresh |-> FALSE, timestamp |-> None]
Entry(data, fresh, timestamp) ==
    [some |-> TRUE, data |-> data, fresh |-> fresh, timestamp |-> timestamp]

\* ------------------------------------------------------------ utilities.rs
\* A parser that reads a file of any declared format.
parse_file_AnyFormat(f, ft) == f.val

\* parse_file: only JSON and YAML are read; any other declared format is an
\* error.  None stands for Err.
parse_file(f, ft) ==
    IF ft \in {"Json", "Yaml"} THEN f.val ELSE None

\* parse_file_with_timestamp_by_path: the timestamp is parsed out of the
\* file's name first, then the content is parsed.
parse_file_with_timestamp_by_path(f, ft) ==
    IF f.stamp = None THEN NoEntry
    ELSE IF parse_file(f, ft) = None THEN NoEntry
    ELSE Entry(parse_file(f, ft), FALSE, f.stamp)

\* get_files_starts_with: the listing, in directory-scan order; a directory
\* that cannot be read lists nothing.
get_files_starts_with(d, readable) == IF readable THEN d ELSE <<>>

\* The body of the GET, parsed by the declared format.  body is None when
\* the request fails, the body cannot be read or it does not deserialize.
ParseBody(body, ft) ==
    IF ft \in {"Json", "Yaml"} THEN body ELSE None

PlainIndex(d) ==
    IF PlainCount(d) = 0 THEN 0
    ELSE CHOOSE i \in 1..Len(d) : d[i].stamp = None

\* A save that reports success and writes nothing.
save_to_disk_override_Skips(d, data, ft, io_ok) ==
    [ok |-> TRUE, disk |-> d]

\* save_to_disk_override(data, storage_directory/file_name, file_type): the
\* file written is named exactly like the prefix.  The directory afterwards:
\* the file replaced where it is, or added at the end of the scan.
save_to_disk_override(d, data, ft, io_ok) ==
    IF ft \notin {"Json", "Yaml"} \/ ~io_ok THEN [ok |-> FALSE, disk |-> d]
    ELSE IF PlainIndex(d) = 0
         THEN [ok |-> TRUE, disk |-> Append(d, File(None, data))]
         ELSE [ok |-> TRUE,
               disk |-> [d EXCEPT ![PlainIndex(d)] = File(None, data)]]

\* ------------------------------------------------- base.rs: ResourceState
is_marked_stale(c) == c.is_stale

\* A mark that stamps the slot anew.
mark_stale_Restamps(c) == [c EXCEPT !.is_stale = TRUE, !.timestamp = 0]

\* A mark that leaves the flag as it was.
mark_stale_Forgets(c) == c

\* A mark that flips the flag.
mark_stale_Toggles(c) == [c EXCEPT !.is_stale = ~c.is_stale]

mark_stale(c) == [c EXCEPT !.is_stale = TRUE]

\* Freshness that still holds at elapsed = timeout.
IsFresh_Inclusive(timestamp, t, ttl) ==
    IF t < timestamp THEN FALSE
    ELSE IF ttl = None THEN TRUE
    ELSE t - timestamp <= ttl

\* timestamp.elapsed().map(|elapsed| match timeout { Some(timeout) =>
\* elapsed < timeout, None => true }).unwrap_or(false): elapsed() is an error
\* when the clock is behind the timestamp.
IsFresh(timestamp, t, ttl) ==
    IF t < timestamp THEN FALSE
    ELSE IF ttl = None THEN TRUE
    ELSE t - timestamp < ttl

\* A slot that counts as aged when no timeout is configured.
get_internal_data_Aged(c, t, ttl) ==
    IF c.data = None THEN NoEntry
    ELSE Entry(c.data, ttl # None /\ IsFresh(c.timestamp, t, ttl), c.timestamp)

get_internal_data(c, t, ttl) ==
    IF c.data = None THEN NoEntry
    ELSE Entry(c.data, IsFresh(c.timestamp, t, ttl), c.timestamp)

RECURSIVE FirstParsed(_, _, _)
FirstParsed(d, ft, i) ==
    IF i > Len(d) THEN NoEntry
    ELSE IF parse_file_with_timestamp_by_path(d[i], ft).some
         THEN parse_file_with_timestamp_by_path(d[i], ft)
         ELSE FirstParsed(d, ft, i + 1)

\* get_disk_cached_data: the first file that parses; its freshness is
\* computed from the slot's timestamp (internal_cache_guard.timestamp).
get_disk_cached_data(c, d, ft, t, ttl) ==
    LET e == FirstParsed(d, ft, 1)
    IN  IF e.some THEN Entry(e.data, IsFresh(c.timestamp, t, ttl), e.timestamp)
        ELSE NoEntry

\* set_internal_cache: write() and then read() on the same RwLock, in the
\* same thread.  The read of a lock its own thread holds for writing never
\* returns: std::sync::RwLock blocks for ever or panics.  A panic drops the
\* write guard while unwinding, which poisons the lock.  The assignment of
\* the new Cache below the two guards is never reached.
ReentrantRead == {"deadlock", "panic"}

set_internal_cache(lk, reentrant) ==
    IF lk = "poisoned" THEN [status |-> "CacheLock", lock |-> lk]
    ELSE IF lk = "held" THEN [status |-> "blocked", lock |-> lk]
    ELSE IF reentrant = "deadlock" THEN [status |-> "hung", lock |-> "held"]
    ELSE [status |-> "panic", lock |-> "poisoned"]

\* -------------------------------------------- base.rs: ResourceReader<T>
\* A wrapper that drops every Stale result.
get_data_or_default_DropsStale(r, allow_stale) ==
    IF r.kind = "Fresh" THEN r.val ELSE DefaultValue

get_data_or_default(r, allow_stale) ==
    IF r.kind = "Fresh" THEN r.val
    ELSE IF r.kind = "Stale" THEN (IF allow_stale THEN r.val ELSE DefaultValue)
    ELSE DefaultValue

\* A wrapper that answers an error with the default value.
get_data_or_none_Defaults(r, allow_stale) ==
    IF r.kind = "Fresh" THEN r.val
    ELSE IF r.kind = "Stale" THEN (IF allow_stale THEN r.val ELSE None)
    ELSE DefaultValue

get_data_or_none(r, allow_stale) ==
    IF r.kind = "Fresh" THEN r.val
    ELSE IF r.kind = "Stale" THEN (IF allow_stale THEN r.val ELSE None)
    ELSE None

\* ------------------------------ base.rs: DefaultLocalResourceReader
\* get_data_or_error up to the install: the result returned, or the value
\* handed to set_internal_cache (install).
LocalRead(c, d, ft, t, ttl, allow_stale) ==
    LET marked == is_marked_stale(c)
        mem == IF marked THEN NoEntry ELSE get_internal_data(c, t, ttl)
        stale_internal_data == IF mem.some /\ ~mem.fresh THEN mem.data ELSE None
        fresh_data_from_drive ==
            IF Len(d) = 0 THEN None ELSE parse_file(d[1], ft)
        cand == [NoCandidates EXCEPT !.mem = stale_internal_data]
    IN  IF mem.some /\ mem.fresh
        THEN [res |-> Fresh(mem.data, "memory"), install |-> None,
              refresh |-> "none", cand |-> NoCandidates]
        ELSE IF fresh_data_from_drive = None /\ allow_stale
        THEN IF stale_internal_data # None
             THEN [res |-> Stale(stale_internal_data, "memory"), install |-> None,
                   refresh |-> "failed", cand |-> cand]
             ELSE [res |-> Err("StaleInternalNone"), install |-> None,
                   refresh |-> "failed", cand |-> cand]
        ELSE IF fresh_data_from_drive = None
        THEN [res |-> Err("FreshingData"), install |-> None,
              refresh |-> "failed", cand |-> cand]
        ELSE [res |-> Fresh(fresh_data_from_drive, "refresh"),
              install |-> fresh_data_from_drive,
              refresh |-> "ok", cand |-> cand]

\* ----------------------------- base.rs: DefaultRemoteResourceReader
\* A probe that asks the disk tier before the memory tier.
RemoteProbe_DiskFirst(c, d, ft, t, ttl) ==
    LET marked == is_marked_stale(c)
        mem == IF marked THEN NoEntry ELSE get_internal_data(c, t, ttl)
        dsk == IF marked THEN NoEntry ELSE get_disk_cached_data(c, d, ft, t, ttl)
    IN  IF dsk.some /\ dsk.fresh
        THEN [done |-> TRUE, res |-> Fresh(dsk.data, "disk"),
              mem |-> None, mem_ts |-> None, dsk |-> None, dsk_ts |-> None]
        ELSE IF mem.some /\ mem.fresh
        THEN [done |-> TRUE, res |-> Fresh(mem.data, "memory"),
              mem |-> None, mem_ts |-> None, dsk |-> None, dsk_ts |-> None]
        ELSE [done |-> FALSE, res |-> Err(""),
              mem |-> mem.data, mem_ts |-> mem.timestamp,
              dsk |-> dsk.data, dsk_ts |-> dsk.timestamp]

\* get_data_or_error up to the network fetch: the Fresh result of a tier, or
\* the stale candidates collected on the way.
RemoteProbe(c, d, ft, t, ttl) ==
    LET marked == is_marked_stale(c)
        mem == IF marked THEN NoEntry ELSE get_internal_data(c, t, ttl)
        dsk == IF marked THEN NoEntry ELSE get_disk_cached_data(c, d, ft, t, ttl)
    IN  IF mem.some /\ mem.fresh
        THEN [done |-> TRUE, res |-> Fresh(mem.data, "memory"),
              mem |-> None, mem_ts |-> None, dsk |-> None, dsk_ts |-> None]
        ELSE IF dsk.some /\ dsk.fresh
        THEN [done |-> TRUE, res |-> Fresh(dsk.data, "disk"),
              mem |-> None, mem_ts |-> None, dsk |-> None, dsk_ts |-> None]
        ELSE [done |-> FALSE, res |-> Err(""),
              mem |-> mem.data, mem_ts |-> mem.timestamp,
              dsk |-> dsk.data, dsk_ts |-> dsk.timestamp]

\* A choice that prefers the memory candidate whatever the timestamps.
StaleChoice_MemoryFirst(mem, mem_ts, dsk, dsk_ts) ==
    IF mem # None THEN Stale(mem, "memory")
    ELSE IF dsk # None THEN Stale(dsk, "disk")
    ELSE Err("StaleInternalNone")

\* The stale candidate returned when the fetch brought nothing and stale
\* data is allowed.
StaleChoice(mem, mem_ts, dsk, dsk_ts) ==
    IF mem # None /\ dsk # None
    THEN IF dsk_ts > mem_ts THEN Stale(dsk, "disk") ELSE Stale(mem, "memory")
    ELSE IF mem # None THEN Stale(mem, "memory")
    ELSE IF dsk # None THEN Stale(dsk, "disk")
    ELSE Err("StaleInternalNone")

\* A reader that hands a stale candidate over whether or not it was asked
\* for one.
RemoteAfterFetch_StaleUnasked(fresh_data_from_server, allow_stale, mem, mem_ts, dsk, dsk_ts) ==
    IF fresh_data_from_server = None
    THEN [res |-> StaleChoice(mem, mem_ts, dsk, dsk_ts), install |-> None]
    ELSE [res |-> Fresh(fresh_data_from_server, "refresh"),
          install |-> fresh_data_from_server]

\* A reader with one kind of error for every failed fetch.
RemoteAfterFetch_OneError(fresh_data_from_server, allow_stale, mem, mem_ts, dsk, dsk_ts) ==
    IF fresh_data_from_server = None
    THEN [res |-> IF allow_stale /\ (mem # None \/ dsk # None)
                  THEN StaleChoice(mem, mem_ts, dsk, dsk_ts)
                  ELSE Err("StaleInternalNone"),
          install |-> None]
    ELSE [res |-> Fresh(fresh_data_from_server, "refresh"),
          install |-> fresh_data_from_server]

\* A reader for which a failed fetch is an error at once.
RemoteAfterFetch_FetchErrors(fresh_data_from_server, allow_stale, mem, mem_ts, dsk, dsk_ts) ==
    IF fresh_data_from_server = None
    THEN [res |-> Err("FreshingData"), install |-> None]
    ELSE [res |-> Fresh(fresh_data_from_server, "refresh"),
          install |-> fresh_data_from_server]

\* get_data_or_error after the fetch, up to the disk write.
RemoteAfterFetch(fresh_data_from_server, allow_stale, mem, mem_ts, dsk, dsk_ts) ==
    IF fresh_data_from_server = None /\ allow_stale
    THEN [res |-> StaleChoice(mem, mem_ts, dsk, dsk_ts), install |-> None]
    ELSE IF fresh_data_from_server = None
    THEN [res |-> Err("FreshingData"), install |-> None]
    ELSE [res |-> Fresh(fresh_data_from_server, "refresh"),
          install |-> fresh_data_from_server]

\* ------------------------------------------------- remote.rs: Remote<T>
\* since_in_secs - timestamp_in_secs on u64: below zero the subtraction
\* panics (overflow checks on) or wraps (overflow checks off).  None stands
\* for the panic.
Overflow == {"panic", "wrap"}

U64Sub(a, b, overflow) ==
    IF a >= b THEN a - b
    ELSE IF overflow = "wrap" THEN U64Modulus - (b - a)
    ELSE None

\* The freshness of an entry stamped timestamp, read at since_in_secs:
\* "fresh", "stale" or "panic".
Remote_freshness(timestamp, since_in_secs, ttl, overflow) ==
    IF ttl = None THEN "fresh"
    ELSE IF U64Sub(since_in_secs, timestamp, overflow) = None THEN "panic"
    ELSE IF U64Sub(since_in_secs, timestamp, overflow) < ttl THEN "fresh"
    ELSE "stale"

Remote_is_marked_stale(c) == c.is_stale

Remote_mark_stale(c) == [c EXCEPT !.is_stale = TRUE]

\* some, data, timestamp as in Entry; fresh is the freshness above.
Remote_get_internal_data(c, since_in_secs, ttl, overflow) ==
    IF c.data = None THEN NoEntry
    ELSE Entry(c.data, Remote_freshness(c.timestamp, since_in_secs, ttl, overflow),
               c.timestamp)

Remote_get_disk_cached_data(d, ft, since_in_secs, ttl, overflow) ==
    LET e == FirstParsed(d, ft, 1)
    IN  IF e.some
        THEN Entry(e.data, Remote_freshness(e.timestamp, since_in_secs, ttl, overflow),
                   e.timestamp)
        ELSE NoEntry

\* A set_current_member that leaves the flag as it finds it.
Remote_set_current_member_KeepsFlag(c, data, now_since_epoch_start_in_secs) ==
    Cache(data, c.is_stale, now_since_epoch_start_in_secs)

\* cached_data and is_stale, each behind its own lock, are written one after
\* the other while both write guards are held.
Remote_set_current_member(c, data, now_since_epoch_start_in_secs) ==
    Cache(data, FALSE, now_since_epoch_start_in_secs)

\* Remote::get_data_or_error up to the network fetch.  The value is handed
\* over bare; kind and via name the return statement that handed it over.
Remote_probe(c, d, ft, since, ttl, overflow) ==
    LET marked == Remote_is_marked_stale(c)
        mem == IF marked THEN NoEntry
               ELSE Remote_get_internal_data(c, since, ttl, overflow)
        dsk == IF marked THEN NoEntry
               ELSE Remote_get_disk_cached_data(d, ft, since, ttl, overflow)
        quiet == [mem |-> None, mem_ts |-> 0, dsk |-> None, dsk_ts |-> 0]
    IN  IF mem.some /\ mem.fresh = "panic"
        THEN [done |-> TRUE, res |-> Res("Panic", None, "", "memory")] @@ quiet
        ELSE IF mem.some /\ mem.fresh = "fresh"
        THEN [done |-> TRUE, res |-> Fresh(mem.data, "memory")] @@ quiet
        ELSE IF dsk.some /\ dsk.fresh = "panic"
        THEN [done |-> TRUE, res |-> Res("Panic", None, "", "disk")] @@ quiet
        ELSE IF dsk.some /\ dsk.fresh = "fresh"
        THEN [done |-> TRUE, res |-> Fresh(dsk.data, "disk")] @@ quiet
        ELSE [done |-> FALSE, res |-> Err(""),
              mem |-> mem.data,
              mem_ts |-> IF mem.some THEN mem.timestamp ELSE 0,
              dsk |-> dsk.data,
              dsk_ts |-> IF dsk.some THEN dsk.timestamp ELSE 0]

\* ------------------------------------------------------------ the state
\* ResourceState has no constructor in the sources: its slot starts as any
\* Cache that is not force-marked and was stamped no later than the clock
\* reads.  Remote::new starts with an empty slot.
Init ==
    /\ reader \in Readers
    /\ file_type \in ResourceFileType
    /\ timeout \in Timeouts
    /\ now \in Times
    /\ cache \in IF reader = "legacy" THEN {Cache(None, FALSE, 0)}
                 ELSE {Cache(v, FALSE, ts) : v \in Values \cup {None}, ts \in 0..now}
    /\ lock = "free"
    /\ disk \in Listings
    /\ pc = [c \in Callers |-> "idle"]
    /\ call = [c \in Callers |-> IdleCall]
    /\ ret = NoRet
    /\ mark_done = FALSE
    /\ past = {cache}

\* What a get_data_or_error that ended hands over: the result itself and
\* what get_data_or_default and get_data_or_none make of it (Remote has
\* neither).
Ret(op, r, allow_stale, after_mark, refresh, cand) ==
    [op |-> op, kind |-> r.kind, val |-> r.val, err |-> r.err,
     via |-> r.via, allow_stale |-> allow_stale, after_mark |-> after_mark,
     refresh |-> refresh, mem |-> cand.mem, mem_ts |-> cand.mem_ts,
     dsk |-> cand.dsk, dsk_ts |-> cand.dsk_ts,
     or_default |-> IF op = "get" /\ r.kind # "Panic"
                    THEN get_data_or_default(r, allow_stale) ELSE None,
     or_none |-> IF op = "get" /\ r.kind # "Panic"
                 THEN get_data_or_none(r, allow_stale) ELSE None]

Candidates(k) ==
    [mem |-> k.mem, mem_ts |-> k.mem_ts, dsk |-> k.dsk, dsk_ts |-> k.dsk_ts]

Return(c, r) ==
    /\ ret' = r
    /\ pc' = [pc EXCEPT ![c] = "idle"]
    /\ call' = [call EXCEPT ![c] = IdleCall]

\* The call of set_internal_cache(v) that ends get_data_or_error.  A caller
\* that never gets out of it stays "hung" (it holds the write lock) or
\* "blocked" (another caller holds it).
Install(c, v, allow_stale, after_mark, cand) ==
    \E reentrant \in ReentrantRead :
        LET s == set_internal_cache(lock, reentrant)
        IN  /\ lock' = s.lock
            /\ cache' = cache
            /\ IF s.status \in {"hung", "blocked"}
               THEN /\ pc' = [pc EXCEPT ![c] = s.status]
                    /\ call' = [call EXCEPT ![c] = [IdleCall EXCEPT !.fresh = v]]
                    /\ ret' = NoRet
               ELSE IF s.status = "CacheLock"
               THEN Return(c, Ret("get", Err("CacheLock"), allow_stale,
                                  after_mark, "ok", cand))
               ELSE Return(c, Ret("get", Res("Panic", v, "", "refresh"),
                                  allow_stale, after_mark, "ok", cand))

\* A caller that asks for the lock while another holds it for ever.
Block(c) ==
    /\ pc' = [pc EXCEPT ![c] = "blocked"]
    /\ ret' = NoRet
    /\ UNCHANGED <<cache, lock, disk, call>>

\* A read that answers a poisoned lock like a slot without data.
LockError_AsNoData(c, allow_stale) ==
    /\ Return(c, Ret("get", Err("StaleInternalNone"), allow_stale, mark_done,
                     "none", NoCandidates))
    /\ UNCHANGED <<cache, lock, disk>>

LockError(c, allow_stale) ==
    /\ Return(c, Ret("get", Err("CacheLock"), allow_stale, mark_done,
                     "none", NoCandidates))
    /\ UNCHANGED <<cache, lock, disk>>

\* DefaultLocalResourceReader::get_data_or_error(allow_stale)
LocalGet(c, allow_stale, readable) ==
    /\ reader = "local"
    /\ pc[c] = "idle"
    /\ UNCHANGED <<reader, file_type, timeout, now, mark_done, past>>
    /\ IF lock = "held" THEN Block(c)
       ELSE IF lock = "poisoned" THEN LockError(c, allow_stale)
       ELSE LET p == LocalRead(cache, get_files_starts_with(disk, readable),
                               file_type, now, timeout, allow_stale)
            IN  IF p.install = None
                THEN /\ Return(c, Ret("get", p.res, allow_stale, mark_done,
                                      p.refresh, p.cand))
                     /\ UNCHANGED <<cache, lock, disk>>
                ELSE /\ Install(c, p.install, allow_stale, mark_done, p.cand)
                     /\ UNCHANGED disk

\* A reader that keeps the lock of the slot while it fetches.
RemoteStart_HoldsLock(c, allow_stale, readable) ==
    /\ reader = "remote"
    /\ pc[c] = "idle"
    /\ UNCHANGED <<reader, file_type, timeout, now, mark_done, past>>
    /\ IF lock = "held" THEN Block(c)
       ELSE IF lock = "poisoned" THEN LockError(c, allow_stale)
       ELSE LET p == RemoteProbe(cache, get_files_starts_with(disk, readable),
                                 file_type, now, timeout)
            IN  /\ UNCHANGED <<cache, disk>>
                /\ IF p.done
                   THEN /\ Return(c, Ret("get", p.res, allow_stale, mark_done,
                                         "none", NoCandidates))
                        /\ UNCHANGED lock
                   ELSE /\ lock' = "held"
                        /\ pc' = [pc EXCEPT ![c] = "fetching"]
                        /\ call' = [call EXCEPT ![c] =
                               [allow_stale |-> allow_stale,
                                mem |-> p.mem, mem_ts |-> p.mem_ts,
                                dsk |-> p.dsk, dsk_ts |-> p.dsk_ts,
                                now0 |-> None, after_mark |-> mark_done,
                                fresh |-> None]]
                        /\ ret' = NoRet

\* A reader that waits for a fetch another caller has in flight.
RemoteStart_Joins(c, allow_stale, readable) ==
    /\ reader = "remote"
    /\ pc[c] = "idle"
    /\ UNCHANGED <<reader, file_type, timeout, now, mark_done, past>>
    /\ IF lock = "held" THEN Block(c)
       ELSE IF lock = "poisoned" THEN LockError(c, allow_stale)
       ELSE LET p == RemoteProbe(cache, get_files_starts_with(disk, readable),
                                 file_type, now, timeout)
            IN  IF p.done
                THEN /\ Return(c, Ret("get", p.res, allow_stale, mark_done,
                                      "none", NoCandidates))
                     /\ UNCHANGED <<cache, lock, disk>>
                ELSE IF \E d \in Callers : pc[d] = "fetching"
                THEN Block(c)
                ELSE /\ UNCHANGED <<cache, lock, disk>>
                     /\ pc' = [pc EXCEPT ![c] = "fetching"]
                     /\ call' = [call EXCEPT ![c] =
                            [allow_stale |-> allow_stale,
                             mem |-> p.mem, mem_ts |-> p.mem_ts,
                             dsk |-> p.dsk, dsk_ts |-> p.dsk_ts,
                             now0 |-> None, after_mark |-> mark_done,
                             fresh |-> None]]
                     /\ ret' = NoRet

\* A reader that installs in the slot the value it found fresh on disk.
RemoteStart_InstallsDisk(c, allow_stale, readable) ==
    /\ reader = "remote"
    /\ pc[c] = "idle"
    /\ UNCHANGED <<reader, file_type, timeout, now, mark_done, past>>
    /\ IF lock = "held" THEN Block(c)
       ELSE IF lock = "poisoned" THEN LockError(c, allow_stale)
       ELSE LET p == RemoteProbe(cache, get_files_starts_with(disk, readable),
                                 file_type, now, timeout)
            IN  /\ UNCHANGED <<lock, disk>>
                /\ cache' = IF p.done /\ p.res.via = "disk"
                            THEN Cache(p.res.val, FALSE, now) ELSE cache
                /\ IF p.done
                   THEN Return(c, Ret("get", p.res, allow_stale, mark_done,
                                      "none", NoCandidates))
                   ELSE /\ pc' = [pc EXCEPT ![c] = "fetching"]
                        /\ call' = [call EXCEPT ![c] =
                               [allow_stale |-> allow_stale,
                                mem |-> p.mem, mem_ts |-> p.mem_ts,
                                dsk |-> p.dsk, dsk_ts |-> p.dsk_ts,
                                now0 |-> None, after_mark |-> mark_done,
                                fresh |-> None]]
                        /\ ret' = NoRet

\* DefaultRemoteResourceReader::get_data_or_error(allow_stale), up to the
\* await of reqwest::get.
RemoteStart(c, allow_stale, readable) ==
    /\ reader = "remote"
    /\ pc[c] = "idle"
    /\ UNCHANGED <<reader, file_type, timeout, now, mark_done, past>>
    /\ IF lock = "held" THEN Block(c)
       ELSE IF lock = "poisoned" THEN LockError(c, allow_stale)
       ELSE LET p == RemoteProbe(cache, get_files_starts_with(disk, readable),
                                 file_type, now, timeout)
            IN  /\ UNCHANGED <<cache, lock, disk>>
                /\ IF p.done
                   THEN Return(c, Ret("get", p.res, allow_stale, mark_done,
                                      "none", NoCandidates))
                   ELSE /\ pc' = [pc EXCEPT ![c] = "fetching"]
                        /\ call' = [call EXCEPT ![c] =
                               [allow_stale |-> allow_stale,
                                mem |-> p.mem, mem_ts |-> p.mem_ts,
                                dsk |-> p.dsk, dsk_ts |-> p.dsk_ts,
                                now0 |-> None, after_mark |-> mark_done,
                                fresh |-> None]]
                        /\ ret' = NoRet

\* ... and from the answer of the fetch to the end.
RemoteFetchDone(c, body, io_ok) ==
    /\ reader = "remote"
    /\ pc[c] = "fetching"
    /\ UNCHANGED <<reader, file_type, timeout, now, mark_done, past>>
    /\ LET k == call[c]
           p == RemoteAfterFetch(ParseBody(body, file_type), k.allow_stale,
                                 k.mem, k.mem_ts, k.dsk, k.dsk_ts)
           w == save_to_disk_override(disk, p.install, file_type, io_ok)
       IN  IF p.install = None
           THEN /\ Return(c, Ret("get", p.res, k.allow_stale, k.after_mark,
                                 "failed", Candidates(k)))
                /\ UNCHANGED <<cache, lock, disk>>
           ELSE IF ~w.ok
           THEN /\ Return(c, Ret("get", Err("Io"), k.allow_stale, k.after_mark,
                                 "ok", Candidates(k)))
                /\ UNCHANGED <<cache, lock, disk>>
           ELSE /\ disk' = w.disk
                /\ Install(c, p.install, k.allow_stale, k.after_mark, Candidates(k))

\* Remote::get_data_or_error(allow_stale), up to the await of reqwest::get.
LegacyStart(c, allow_stale, readable, overflow) ==
    /\ reader = "legacy"
    /\ pc[c] = "idle"
    /\ UNCHANGED <<reader, file_type, timeout, now, mark_done, past, cache, lock, disk>>
    /\ LET p == Remote_probe(cache, get_files_starts_with(disk, readable),
                             file_type, now, timeout, overflow)
       IN  IF p.done
           THEN Return(c, Ret("legacy_get", p.res, allow_stale, mark_done,
                              "none", NoCandidates))
           ELSE /\ pc' = [pc EXCEPT ![c] = "fetching"]
                /\ call' = [call EXCEPT ![c] =
                       [allow_stale |-> allow_stale,
                        mem |-> p.mem, mem_ts |-> p.mem_ts,
                        dsk |-> p.dsk, dsk_ts |-> p.dsk_ts,
                        now0 |-> now, after_mark |-> mark_done,
                        fresh |-> None]]
                /\ ret' = NoRet

\* ... and from the answer of the fetch to the end: refresh_staled_data
\* writes the file and then the slot, stamped with the clock read on entry.
LegacyRefresh(c, body, io_ok) ==
    /\ reader = "legacy"
    /\ pc[c] = "fetching"
    /\ UNCHANGED <<reader, file_type, timeout, now, mark_done, lock>>
    /\ LET k == call[c]
           p == RemoteAfterFetch(ParseBody(body, file_type), k.allow_stale,
                                 k.mem, k.mem_ts, k.dsk, k.dsk_ts)
           w == save_to_disk_override(disk, p.install, file_type, io_ok)
       IN  IF p.install = None
           THEN /\ Return(c, Ret("legacy_get", p.res, k.allow_stale,
                                 k.after_mark, "failed", Candidates(k)))
                /\ UNCHANGED <<cache, disk>>
           ELSE IF ~w.ok
           THEN /\ Return(c, Ret("legacy_get", Err("Io"), k.allow_stale,
                                 k.after_mark, "ok", Candidates(k)))
                /\ UNCHANGED <<cache, disk>>
           ELSE /\ disk' = w.disk
                /\ cache' = Remote_set_current_member(cache, p.install, k.now0)
                /\ Return(c, Ret("legacy_get", p.res, k.allow_stale,
                                 k.after_mark, "ok", Candidates(k)))

LegacyFetchDone(c, body, io_ok) ==
    /\ LegacyRefresh(c, body, io_ok)
    /\ UNCHANGED past

\* ResourceReader::mark_as_stale, called from any thread: mark_stale writes
\* the flag when it gets the write lock and does nothing when the lock is
\* poisoned.  While the lock is held for ever the call never returns.
MarkStale ==
    /\ lock # "held"
    /\ cache' = IF lock = "poisoned" THEN cache
                ELSE IF reader = "legacy" THEN Remote_mark_stale(cache)
                ELSE mark_stale(cache)
    /\ mark_done' = TRUE
    /\ ret' = Ret("mark", Res("Unit", None, "", ""), FALSE, mark_done,
                   "none", NoCandidates)
    /\ UNCHANGED <<reader, file_type, timeout, now, disk, lock, pc, call>>

MarkAsStale ==
    /\ MarkStale
    /\ UNCHANGED past

\* The clock moves on, or is set back.
Tick ==
    /\ now < MaxTime
    /\ now' = now + 1
    /\ ret' = NoRet
    /\ UNCHANGED <<reader, file_type, timeout, cache, lock, disk, pc, call, mark_done, past>>

Rollback ==
    /\ now > 0
    /\ now' = now - 1
    /\ ret' = NoRet
    /\ UNCHANGED <<reader, file_type, timeout, cache, lock, disk, pc, call, mark_done, past>>

Reads(C) ==
    \/ \E c \in C, a \in BOOLEAN, r \in BOOLEAN : LocalGet(c, a, r)
    \/ \E c \in C, a \in BOOLEAN, r \in BOOLEAN : RemoteStart(c, a, r)
    \/ \E c \in C, b \in Values \cup {None}, io \in BOOLEAN :
           RemoteFetchDone(c, b, io)
    \/ \E c \in C, a \in BOOLEAN, r \in BOOLEAN, o \in Overflow :
           LegacyStart(c, a, r, o)
    \/ \E c \in C, b \in Values \cup {None}, io \in BOOLEAN :
           LegacyFetchDone(c, b, io)

Next ==
    \/ Reads(Sequential)
    \/ MarkAsStale
    \/ Tick
    \/ Rollback

Spec == Init /\ [][Next]_vars

\* ------------------------------------------------------------ properties
Base == reader \in {"local", "remote"}

\* The time since the slot's timestamp can be computed and is below the
\* timeout.
WithinTimeout ==
    /\ timeout # None
    /\ now >= cache.timestamp
    /\ now - cache.timestamp < timeout

\* A write of v into the slot (set_internal_cache, or set_current_member of
\* Remote) was begun on a healthy lock and has gone as far as it ever will:
\* the caller hangs in it, was thrown out of it, or has returned from it.
SlotWritten(v) ==
    \/ \E c \in Callers : pc[c] = "hung" /\ call[c].fresh = v
    \/ ret.kind = "Panic" /\ ret.via = "refresh" /\ ret.val = v
    \/ ret.kind = "Fresh" /\ ret.via = "refresh" /\ ret.val = v

\* What the memory tier answers to a read that starts in this state.
MemoryProbe ==
    IF reader = "local"
    THEN LocalRead(cache, disk, file_type, now, timeout, FALSE).res
    ELSE RemoteProbe(cache, disk, file_type, now, timeout).res

\* C1, as the specification states it: once the write of v into the slot
\* is over, the slot is exactly {value: v, is_stale: false, timestamp: the
\* current time}.  The code does not do this: in base.rs the write never
\* comes to its assignment.
C1_SlotReplacedAtCurrentTime ==
    \A v \in Values : SlotWritten(v) => cache = Cache(v, FALSE, now)

NoTimeoutValue ==
    /\ Base
    /\ timeout = None
    /\ cache.data # None
    /\ ~cache.is_stale
    /\ lock = "free"

\* The memory tier reports the slot's value as Fresh, to get_internal_data
\* and to a get_data_or_error of either reader.
ReportedFresh ==
    /\ get_internal_data(cache, now, timeout).fresh
    /\ MemoryProbe = Fresh(cache.data, "memory")
    /\ (ret.op = "get" /\ (reader = "local" \/ ret.refresh = "none")) =>
          (ret.kind = "Fresh" /\ ret.val = cache.data /\ ret.via = "memory")

\* C3, as first stated: without a timeout, a value in the slot that was not
\* marked stale is reported Fresh however the clock relates to the slot's
\* timestamp.
C3_Original_FreshWhateverTheClock ==
    NoTimeoutValue => ReportedFresh

\* C3, amended: without a timeout, a value in the slot that was not marked
\* stale is reported Fresh whenever the clock is not behind the slot's
\* timestamp, however old the value is.
C3_FreshWhateverTheAge ==
    (NoTimeoutValue /\ now >= cache.timestamp) => ReportedFresh

\* A read of a resource without timeout was answered Fresh from a slot
\* older than any timeout of the model.
C3_Witness_OldValueFresh ==
    /\ NoTimeoutValue
    /\ now - cache.timestamp > MaxTTL
    /\ ret.op = "get"
    /\ ret.kind = "Fresh"
    /\ ret.via = "memory"

\* C4, as the specification states it: a refresh that brought the value v
\* (the disk load of the local reader, the network fetch of the remote one)
\* ends with Fresh(v) returned, and a read that follows is answered Fresh(v)
\* by the memory tier, with no second refresh.  The code does not do this.
C4_RefreshLeavesMemoryFresh ==
    \A v \in Values :
        (Base /\ SlotWritten(v)) =>
            /\ ret.op = "get" /\ ret.kind = "Fresh" /\ ret.val = v
            /\ lock = "free"
            /\ MemoryProbe = Fresh(v, "memory")

\* C5: a get_data_or_error(allow_stale = false) that starts after a
\* mark_as_stale has returned hands over no value from the memory or the
\* disk tier: it ends with a value only through a refresh that brought one,
\* and with an error otherwise.
C5_NoOldValueAfterMark ==
    (Base /\ ret.op = "get" /\ ret.after_mark /\ ~ret.allow_stale) =>
        /\ ret.kind \in {"Fresh", "Stale"} => (ret.via = "refresh" /\ ret.refresh = "ok")
        /\ ret.refresh # "ok" => ret.kind = "Err"

\* The slot holds a value, was marked stale, and the read that followed
\* with allow_stale = false ended with an error as its refresh failed.
C5_Witness_MarkedReadFails ==
    /\ Base
    /\ cache.data # None
    /\ cache.is_stale
    /\ ret.op = "get"
    /\ ret.after_mark
    /\ ~ret.allow_stale
    /\ ret.refresh = "failed"
    /\ ret.kind = "Err"
    /\ ret.err = "FreshingData"

\* A get_data_or_error(allow_stale = true) of a remote reader has ended
\* after its network fetch brought nothing.
StaleFallback ==
    /\ reader \in {"remote", "legacy"}
    /\ ret.op \in {"get", "legacy_get"}
    /\ ret.refresh = "failed"
    /\ ret.allow_stale

\* C6: when the fetch of a remote reader fails and stale data is allowed,
\* of a stale memory candidate and a stale disk candidate the one with the
\* larger timestamp is returned as Stale (with equal timestamps, one of the
\* two); a single candidate is returned as Stale.
C6_NewerStaleCandidateWins ==
    StaleFallback =>
        LET both == ret.mem # None /\ ret.dsk # None
            memory == ret.kind = "Stale" /\ ret.val = ret.mem /\ ret.via = "memory"
            drive == ret.kind = "Stale" /\ ret.val = ret.dsk /\ ret.via = "disk"
        IN  /\ (both /\ ret.dsk_ts > ret.mem_ts) => drive
            /\ (both /\ ret.mem_ts > ret.dsk_ts) => memory
            /\ (both /\ ret.mem_ts = ret.dsk_ts) => (memory \/ drive)
            /\ (ret.mem # None /\ ret.dsk = None) => memory
            /\ (ret.mem = None /\ ret.dsk # None) => drive

\* Both tiers gave a stale candidate, with different values, and the newer
\* one, from the disk, was returned.
C6_Witness_DiskNewer ==
    /\ StaleFallback
    /\ reader = "remote"
    /\ ret.mem # None
    /\ ret.dsk # None
    /\ ret.mem # ret.dsk
    /\ ret.dsk_ts > ret.mem_ts
    /\ ret.kind = "Stale"
    /\ ret.val = ret.dsk

\* C7: get_data_or_default hands over a value and never an error: the
\* value of a Fresh result, the value of a Stale result when allow_stale is
\* true, and the default value for everything else.
C7_DefaultForEverythingElse ==
    (ret.op = "get" /\ ret.kind \in {"Fresh", "Stale", "Err"}) =>
        /\ ret.or_default \in Values \cup {DefaultValue}
        /\ ret.or_default =
              IF ret.kind = "Fresh" \/ (ret.kind = "Stale" /\ ret.allow_stale)
              THEN ret.val ELSE DefaultValue

\* A Stale result was handed over as its value.
C7_Witness_StaleValue ==
    /\ ret.op = "get"
    /\ ret.kind = "Stale"
    /\ ret.allow_stale
    /\ ret.or_default = ret.val
    /\ ret.or_default # DefaultValue

\* C8: get_data_or_none hands over Some(value) exactly for a Fresh result
\* and for a Stale result with allow_stale true, and None for everything
\* else, every error included.
C8_NoneForEverythingElse ==
    (ret.op = "get" /\ ret.kind \in {"Fresh", "Stale", "Err"}) =>
        /\ ret.or_none # None <=>
              (ret.kind = "Fresh" \/ (ret.kind = "Stale" /\ ret.allow_stale))
        /\ ret.or_none # None => ret.or_none = ret.val

\* An error of get_data_or_error was handed over as None.
C8_Witness_ErrorIsNone ==
    /\ ret.op = "get"
    /\ ret.kind = "Err"
    /\ ret.or_none = None

\* C9: when the fetch of the remote reader fails, allow_stale = false ends
\* with the FreshingData error whatever the stale candidates, and
\* allow_stale = true ends with the StaleInternalNone error exactly when
\* neither tier gave a stale candidate, and never with FreshingData.
C9_ErrorKindSplit ==
    (reader \in {"remote", "legacy"} /\ ret.op \in {"get", "legacy_get"}
        /\ ret.refresh = "failed") =>
        /\ ~ret.allow_stale => (ret.kind = "Err" /\ ret.err = "FreshingData")
        /\ ret.allow_stale =>
              /\ (ret.kind = "Err" /\ ret.err = "StaleInternalNone")
                     <=> (ret.mem = None /\ ret.dsk = None)
              /\ ret.err # "FreshingData"

\* A remote read with allow_stale = false failed with FreshingData although
\* the memory tier had given a stale candidate.
C9_Witness_FreshingDataDespiteCandidate ==
    /\ reader = "remote"
    /\ ret.op = "get"
    /\ ret.refresh = "failed"
    /\ ~ret.allow_stale
    /\ ret.mem # None
    /\ ret.kind = "Err"
    /\ ret.err = "FreshingData"

\* C10, as the specification states it: a local reader that finds no
\* parseable value on disk returns Stale(candidate) when allow_stale is
\* true and the memory tier gave a stale candidate, and fails with the
\* StaleInternalNone error in every other case.  The code does not do
\* this: with allow_stale = false it fails with the other error.
C10_LocalFailsWithStaleInternalNone ==
    (reader = "local" /\ ret.op = "get" /\ ret.refresh = "failed") =>
        IF ret.allow_stale /\ ret.mem # None
        THEN ret.kind = "Stale" /\ ret.val = ret.mem
        ELSE ret.kind = "Err" /\ ret.err = "StaleInternalNone"

\* C11, as the specification states it: when the local reader has loaded
\* the value v from a parseable file, the call returns Fresh(v), the slot
\* holds v, and a read that follows is answered Fresh(v) from memory even
\* with nothing left on disk.  The code does not do this: the install
\* never returns.
C11_LocalLoadInstalledInMemory ==
    \A v \in Values :
        (reader = "local" /\ SlotWritten(v)) =>
            /\ ret.op = "get" /\ ret.kind = "Fresh" /\ ret.val = v
            /\ cache.data = v
            /\ LocalRead(cache, <<>>, file_type, now, timeout, FALSE).res
                   = Fresh(v, "memory")

\* C12, as the specification states it: once a remote reader has fetched
\* the value v and written it to disk, the directory holds an entry for v
\* whose name carries the time of the fetch, and a directory with that
\* entry alone gives v back to get_disk_cached_data.  The code does not do
\* this: the file it writes is named like the prefix, without a timestamp.
C12_FetchedValueStoredWithTimestamp ==
    \A v \in Values :
        (reader \in {"remote", "legacy"} /\ SlotWritten(v)) =>
            /\ \E i \in 1..Len(disk) :
                  /\ disk[i].val = v
                  /\ disk[i].stamp \in Times
                  /\ (reader = "remote" /\ ret.kind \in {"Panic", "Fresh"})
                        => disk[i].stamp = now
            /\ Len(disk) = 1 =>
                  get_disk_cached_data(cache, disk, file_type, now, timeout).data = v

\* C13, as the specification states it: the disk tier reports an entry
\* fresh exactly when the timestamp in the entry's file name is fresh (the
\* clock is not behind it and, with a timeout, less than the timeout has
\* passed since), whatever the timestamp of the memory slot; a read
\* answered Fresh from disk is answered from such an entry.  The code does
\* not do this: base.rs takes the slot's timestamp.
C13_DiskFreshnessFromFileName ==
    LET e == get_disk_cached_data(cache, disk, file_type, now, timeout)
    IN  /\ (Base /\ e.some) => (e.fresh <=> IsFresh(e.timestamp, now, timeout))
        /\ (reader = "remote" /\ ret.op = "get" /\ ret.kind = "Fresh"
                /\ ret.via = "disk") =>
              (e.some /\ e.data = ret.val /\ IsFresh(e.timestamp, now, timeout))

\* ------------------------------------------------ the directory scan
\* Directories of up to ScanFiles files, read by the two readers of
\* base.rs; the directory is readable.
ScanFiles == 2

ScanListings == {d \in SeqsUpTo(Files, ScanFiles) : PlainCount(d) <= 1}

InitScan ==
    /\ reader \in {"local", "remote"}
    /\ file_type \in ResourceFileType
    /\ timeout \in Timeouts
    /\ now \in Times
    /\ cache \in {Cache(v, FALSE, ts) : v \in Values \cup {None}, ts \in 0..now}
    /\ lock = "free"
    /\ disk \in ScanListings
    /\ pc = [c \in Callers |-> "idle"]
    /\ call = [c \in Callers |-> IdleCall]
    /\ ret = NoRet
    /\ mark_done = FALSE
    /\ past = {cache}

NextScan ==
    \/ \E c \in Sequential, allow_stale \in BOOLEAN :
           LocalGet(c, allow_stale, TRUE)
    \/ \E c \in Sequential, allow_stale \in BOOLEAN :
           RemoteStart(c, allow_stale, TRUE)
    \/ \E c \in Sequential, body \in Values \cup {None}, io_ok \in BOOLEAN :
           RemoteFetchDone(c, body, io_ok)

SpecScan == InitScan /\ [][NextScan]_vars

\* The content of the first file, from the i-th on, whose content parses.
RECURSIVE FirstContent(_, _, _)
FirstContent(d, ft, i) ==
    IF i > Len(d) THEN None
    ELSE IF parse_file(d[i], ft) # None THEN parse_file(d[i], ft)
         ELSE FirstContent(d, ft, i + 1)

\* C14, as the specification states it: the disk value a reader uses is
\* that of the first file in scan order that parses, files that do not
\* parse being skipped; a reader finds no disk data only when no file
\* parses.  The code of the local reader does not do this: it tries the
\* first file alone.
C14_FirstParseableFileIsUsed ==
    /\ reader = "local" =>
          /\ \A v \in Values :
                SlotWritten(v) => v = FirstContent(disk, file_type, 1)
          /\ (ret.op = "get" /\ ret.refresh = "failed") =>
                FirstContent(disk, file_type, 1) = None
    /\ reader = "remote" =>
          /\ (ret.op = "get" /\ ret.kind = "Fresh" /\ ret.via = "disk") =>
                ret.val = FirstParsed(disk, file_type, 1).data
          /\ \A c \in Callers :
                (pc[c] = "fetching" /\ call[c].dsk = None /\ ~call[c].after_mark
                     /\ ~mark_done) =>
                    ~FirstParsed(disk, file_type, 1).some

\* C15, as the specification states it: a read with allow_stale = true
\* that starts on a slot holding a value marked stale, and whose refresh
\* brings nothing, returns Stale of the value held.  The code does not do
\* this: a marked slot is not looked at, so its value is no candidate.
C15_MarkedValueReturnedAsStale ==
    (/\ ret.op \in {"get", "legacy_get"}
     /\ ret.after_mark
     /\ ret.allow_stale
     /\ ret.refresh = "failed"
     /\ cache.data # None
     /\ cache.is_stale
     /\ lock = "free") =>
        (ret.kind = "Stale" /\ ret.val = cache.data)

\* C16: the force-stale flag goes from true to false only in the step in
\* which a refresh installs its value in the slot and returns it as Fresh;
\* no mark, no read that ends with Stale or an error and no move of the
\* clock clears it.
C16_FlagClearedOnlyByInstall ==
    [][(cache.is_stale /\ ~cache'.is_stale) =>
           /\ ret'.kind = "Fresh"
           /\ ret'.via = "refresh"
           /\ ret'.refresh = "ok"
           /\ cache'.data = ret'.val]_vars

\* A read that began on a marked slot has installed its value and cleared
\* the flag.
C16_Witness_InstallClearedFlag ==
    /\ mark_done
    /\ ret.after_mark
    /\ ret.kind = "Fresh"
    /\ ret.via = "refresh"
    /\ cache.data = ret.val
    /\ ~cache.is_stale

\* C17: while the lock of the slot is poisoned, a mark_as_stale returns
\* without an error and leaves the slot as it was, and a get_data_or_error
\* (through is_marked_stale, get_internal_data or set_internal_cache) ends
\* with the CacheLock error.
C17_PoisonedLockSilentMarkFailingRead ==
    [][lock = "poisoned" =>
           /\ ret'.op = "mark" => (ret'.kind = "Unit" /\ cache' = cache)
           /\ ret'.op = "get" => (ret'.kind = "Err" /\ ret'.err = "CacheLock")
           /\ \A r \in ReentrantRead :
                  set_internal_cache(lock, r).status = "CacheLock"]_vars

\* A mark_as_stale has returned on a poisoned lock, and the slot's value is
\* still not marked.
C17_Witness_SilentMark ==
    /\ lock = "poisoned"
    /\ ret.op = "mark"
    /\ ret.kind = "Unit"
    /\ cache.data # None
    /\ ~cache.is_stale

\* ------------------------------------------------ concurrent callers
\* The remote reader of base.rs called from several threads at once: a
\* caller's probe of the tiers and its steps after the fetch interleave
\* with the other callers' steps, with mark_as_stale and with the clock.
InitConc ==
    /\ reader = "remote"
    /\ file_type \in ResourceFileType
    /\ timeout \in Timeouts
    /\ now = 0
    /\ cache \in {Cache(v, FALSE, 0) : v \in Values \cup {None}}
    /\ lock = "free"
    /\ disk \in Listings
    /\ pc = [c \in Callers |-> "idle"]
    /\ call = [c \in Callers |-> IdleCall]
    /\ ret = NoRet
    /\ mark_done = FALSE
    /\ past = {cache}

NextConc ==
    \/ \E c \in Callers, allow_stale \in BOOLEAN, readable \in BOOLEAN :
           RemoteStart(c, allow_stale, readable)
    \/ \E c \in Callers, body \in Values \cup {None}, io_ok \in BOOLEAN :
           RemoteFetchDone(c, body, io_ok)
    \/ MarkAsStale
    \/ Tick

SpecConc == InitConc /\ [][NextConc]_vars

\* C18: no caller of the remote reader holds the lock of the slot while its
\* fetch is in progress: the lock changes hands only in a step that ends a
\* caller's fetch, from a lock that was free, and a lock held for ever is
\* held by a caller that is past its fetch.
C18_NoLockAcrossFetch ==
    [][/\ lock' # lock =>
              /\ lock = "free"
              /\ \E c \in Callers : pc[c] = "fetching" /\ pc'[c] # "fetching"
       /\ \A c \in Callers :
              (pc[c] = "idle" /\ pc'[c] = "fetching") => lock' = "free"
       /\ lock' = "held" => \E c \in Callers : pc'[c] = "hung"]_vars

\* Two callers have their fetches in flight at once and the lock is free.
C18_Witness_FetchesInFlightLockFree ==
    /\ \A c \in Callers : pc[c] = "fetching"
    /\ lock = "free"

\* The callers whose refresh brought a value and who are in
\* set_internal_cache for good.
Installing ==
    {c \in Callers : pc[c] \in {"hung", "blocked"} /\ call[c].fresh # None}

\* C19, as the specification states it: when several concurrent refreshes
\* have brought their values to set_internal_cache and none of them can go
\* further, the slot holds the value of one of them, whole, and is not
\* marked stale.  The code does not do this: none of the writes lands.
C19_SlotHoldsAWrittenValue ==
    Cardinality(Installing) >= 2 =>
        /\ cache.data \in {call[c].fresh : c \in Installing}
        /\ ~cache.is_stale

\* C20: concurrent refreshes are not deduplicated: a caller waits only for
\* the lock of the slot, never for the fetch of another caller, and every
\* caller whose fetch brought a value has written the file of the resource
\* before it reaches the slot.
C20_NoCallerWaitsForAFetch ==
    /\ \A c \in Callers : pc[c] = "blocked" => lock = "held"
    /\ Installing # {} =>
          /\ PlainCount(disk) = 1
          /\ disk[PlainIndex(disk)].val \in {call[c].fresh : c \in Installing}
                 \cup (IF ret.kind = "Panic" THEN {ret.val} ELSE {})

\* Every caller has made its own fetch and its own write: the first is in
\* set_internal_cache, the second came out of its fetch with another value,
\* wrote it over the first's file and waits for the lock.
C20_Witness_EachCallerFetchedAndWrote ==
    /\ pc[1] = "hung"
    /\ \A c \in Callers \ {1} : pc[c] = "blocked" /\ call[c].fresh # None
    /\ \E c \in Callers \ {1} :
          /\ call[c].fresh # call[1].fresh
          /\ PlainCount(disk) = 1
          /\ disk[PlainIndex(disk)].val = call[c].fresh

\* ------------------------------------------- the slot's interleavings
\* The accesses to the slot one at a time, for the two readers that fetch:
\* a get_data_or_error reads the flag (is_marked_stale) under one guard and
\* the data with its timestamp (get_internal_data) under another, and the
\* writes and marks of other threads come in between.  Remote keeps the flag
\* behind a lock of its own; set_current_member writes data, timestamp and
\* flag while it holds both write guards.  past collects the slot as every
\* completed write or mark left it.

\* get_data_or_error from its entry to the return of is_marked_stale.  A
\* marked slot is not looked at: the caller goes on to its fetch.
SlotFlag(c, allow_stale) ==
    /\ reader \in {"remote", "legacy"}
    /\ pc[c] = "idle"
    /\ UNCHANGED <<reader, file_type, timeout, now, mark_done, past>>
    /\ IF reader = "remote" /\ lock = "held" THEN Block(c)
       ELSE IF reader = "remote" /\ lock = "poisoned" THEN LockError(c, allow_stale)
       ELSE /\ UNCHANGED <<cache, lock, disk>>
            /\ ret' = NoRet
            /\ pc' = [pc EXCEPT ![c] =
                   IF cache.is_stale THEN "fetching" ELSE "probing"]
            /\ call' = [call EXCEPT ![c] =
                   [allow_stale |-> allow_stale,
                    mem |-> None,
                    mem_ts |-> IF reader = "legacy" THEN 0 ELSE None,
                    dsk |-> None,
                    dsk_ts |-> IF reader = "legacy" THEN 0 ELSE None,
                    now0 |-> IF reader = "legacy" THEN now ELSE None,
                    after_mark |-> mark_done, fresh |-> None]]

\* ... and from there to the await of the fetch: get_internal_data and
\* get_disk_cached_data.  The caller goes by the flag it has read, and by
\* the data and the timestamp the slot holds now.
SlotRead(c, readable, overflow) ==
    /\ reader \in {"remote", "legacy"}
    /\ pc[c] = "probing"
    /\ UNCHANGED <<reader, file_type, timeout, now, mark_done, past>>
    /\ IF reader = "remote" /\ lock = "held" THEN Block(c)
       ELSE IF reader = "remote" /\ lock = "poisoned"
       THEN LockError(c, call[c].allow_stale)
       ELSE LET k == call[c]
                seen == [cache EXCEPT !.is_stale = FALSE]
                files == get_files_starts_with(disk, readable)
                p == IF reader = "legacy"
                     THEN Remote_probe(seen, files, file_type, k.now0, timeout, overflow)
                     ELSE RemoteProbe(seen, files, file_type, now, timeout)
            IN  /\ UNCHANGED <<cache, lock, disk>>
                /\ IF p.done
                   THEN Return(c, Ret(IF reader = "legacy" THEN "legacy_get" ELSE "get",
                                      p.res, k.allow_stale, k.after_mark,
                                      "none", NoCandidates))
                   ELSE /\ pc' = [pc EXCEPT ![c] = "fetching"]
                        /\ call' = [call EXCEPT ![c] =
                               [k EXCEPT !.mem = p.mem, !.mem_ts = p.mem_ts,
                                         !.dsk = p.dsk, !.dsk_ts = p.dsk_ts]]
                        /\ ret' = NoRet

\* The writes and marks a run is followed through: past grows up to
\* MaxWrites contents beyond the slot's first.
MaxWrites == 3

\* The end of a fetch of Remote, and a mark, each leaving the slot to past.
SlotRefresh(c, body, io_ok) ==
    /\ Cardinality(past) <= MaxWrites
    /\ LegacyRefresh(c, body, io_ok)
    /\ past' = past \cup {cache'}

SlotMark ==
    /\ Cardinality(past) <= MaxWrites
    /\ MarkStale
    /\ past' = past \cup {cache'}

InitSlot ==
    /\ reader \in {"remote", "legacy"}
    /\ file_type = "Json"
    /\ timeout \in Timeouts
    /\ now = 0
    /\ cache \in IF reader = "legacy" THEN {Cache(None, FALSE, 0)}
                 ELSE {Cache(v, FALSE, 0) : v \in Values \cup {None}}
    /\ lock = "free"
    /\ disk = <<>>
    /\ pc = [c \in Callers |-> "idle"]
    /\ call = [c \in Callers |-> IdleCall]
    /\ ret = NoRet
    /\ mark_done = FALSE
    /\ past = {cache}

NextSlot ==
    \/ \E c \in Callers, allow_stale \in BOOLEAN : SlotFlag(c, allow_stale)
    \/ \E c \in Callers, overflow \in Overflow : SlotRead(c, TRUE, overflow)
    \/ \E c \in Callers, body \in Values \cup {None}, io_ok \in BOOLEAN :
           RemoteFetchDone(c, body, io_ok)
    \/ \E c \in Callers, body \in Values \cup {None}, io_ok \in BOOLEAN :
           SlotRefresh(c, body, io_ok)
    \/ SlotMark
    \/ Tick

SpecSlot == InitSlot /\ [][NextSlot]_vars

\* C21: no reader observes a half-written slot.  The flag a reader has read
\* as false together with the data and the timestamp it reads afterwards,
\* under another guard and with the writes and marks of other threads in
\* between, are the slot as one completed write or mark left it: the stale
\* candidate a caller holds with its timestamp, and the value a read hands
\* over as Fresh from memory.
C21_NoHalfWrittenSlot ==
    /\ \A c \in Callers :
           (pc[c] = "fetching" /\ call[c].mem # None) =>
               Cache(call[c].mem, FALSE, call[c].mem_ts) \in past
    /\ (ret.op \in {"get", "legacy_get"} /\ ret.kind = "Fresh"
            /\ ret.via = "memory") =>
           \E t \in Times : Cache(ret.val, FALSE, t) \in past

\* A caller holds the value and the timestamp it read from the slot, and
\* since the first content of the slot a write and a mark have landed, the
\* mark last.
C21_Witness_ReadAmongWritesAndMarks ==
    /\ reader = "legacy"
    /\ \E c \in Callers : pc[c] = "fetching" /\ call[c].mem # None
    /\ cache.is_stale
    /\ cache.data # None
    /\ Cardinality(past) >= 3

\* C22, as the specification states it: every get_data_or_error returns
\* once its fetch has returned: no caller waits for ever for the lock of the
\* slot, least of all for a lock it holds itself, and none is thrown out of
\* set_internal_cache.  The code does not do this: set_internal_cache asks
\* for the read lock while it holds the write lock.
C22_EveryCallReturns ==
    Base =>
        /\ \A c \in Callers : pc[c] \notin {"hung", "blocked"}
        /\ ~(ret.op = "get" /\ ret.kind = "Panic")

\* C23, as the specification states it: an entry of the memory or of the
\* disk tier whose timestamp is later than the clock is reported not fresh,
\* and the read that meets it ends normally: no read crashes in a tier, and
\* none hands over as Fresh an entry stamped later than the clock reads.  The code does not do this:
\* Remote subtracts the timestamp from the clock on u64, and the disk tier of
\* base.rs takes the slot's timestamp for the entry's.
C23_ClockAnomalyNeverFresh ==
    LET e == FirstParsed(disk, file_type, 1)
    IN  (ret.op \in {"get", "legacy_get"} /\ ret.refresh = "none") =>
            /\ ret.kind # "Panic"
            /\ (ret.kind = "Fresh" /\ ret.via = "memory") =>
                  cache.timestamp <= now
            /\ (ret.kind = "Fresh" /\ ret.via = "disk") =>
                  (e.some /\ e.timestamp <= now)

\* Caller c of the remote reader of base.rs starts a read on a healthy lock,
\* and the step takes it through the memory and the disk tier: to a result,
\* or to the await of its fetch.
RemoteReadStep(c) ==
    /\ reader = "remote"
    /\ lock = "free"
    /\ pc[c] = "idle"
    /\ \/ pc'[c] = "fetching"
       \/ ret'.op = "get" /\ ret'.refresh = "none"

\* C24: the tiers of the remote reader are asked in the order memory, disk,
\* network.  On a slot that is not force-marked, a fresh memory value is
\* returned as Fresh whatever the directory holds and without a fetch; a
\* Fresh from the disk tier is returned only when memory was not fresh, and
\* without a fetch; a fetch is begun only when the slot is force-marked or
\* neither tier reported fresh, and always when the slot is force-marked.
C24_TierOrder ==
    [][\A c \in Callers :
          RemoteReadStep(c) =>
              LET marked == is_marked_stale(cache)
                  mem == get_internal_data(cache, now, timeout)
                  dsk == get_disk_cached_data(cache, disk, file_type, now, timeout)
                  memfresh == mem.some /\ mem.fresh
                  dskfresh == dsk.some /\ dsk.fresh
              IN  /\ (~marked /\ memfresh) =>
                        /\ pc'[c] = "idle"
                        /\ ret'.kind = "Fresh" /\ ret'.via = "memory"
                        /\ ret'.val = mem.data
                  /\ (pc'[c] = "idle" /\ ret'.via = "disk") =>
                        /\ ~marked /\ ~memfresh /\ dskfresh
                        /\ ret'.kind = "Fresh" /\ ret'.val = dsk.data
                  /\ pc'[c] = "fetching" =>
                        \/ marked
                        \/ ~memfresh /\ (call'[c].dsk # None => ~dskfresh)
                  /\ marked => pc'[c] = "fetching"]_vars

\* A read was answered Fresh from memory while the directory held a file
\* that parses, with another value.
C24_Witness_MemoryBeforeDisk ==
    /\ reader = "remote"
    /\ ret.op = "get"
    /\ ret.refresh = "none"
    /\ ret.kind = "Fresh"
    /\ ret.via = "memory"
    /\ FirstParsed(disk, file_type, 1).some
    /\ FirstParsed(disk, file_type, 1).data # ret.val

\* C25: for a resource declared TOML or Text nothing parses, neither a
\* response nor a file: no step writes a file, an empty slot stays empty,
\* and every get_data_or_error on an empty slot ends with an error, for
\* either value of allow_stale.
C25_UnsupportedFormatNeverYields ==
    [][(file_type \in {"Toml", "Text"}) =>
           /\ disk' = disk
           /\ cache.data = None =>
                 /\ cache'.data = None
                 /\ \A c \in Callers : pc'[c] \notin {"hung", "blocked"}
                 /\ (ret'.op \in {"get", "legacy_get"} /\ ret' # ret) =>
                       ret'.kind = "Err"]_vars

\* A read of a Text resource with an empty slot has failed after its
\* refresh, with allow_stale = true and a file in the directory whose
\* content would deserialize.
C25_Witness_TextReadFailed ==
    /\ file_type = "Text"
    /\ cache.data = None
    /\ \E i \in 1..Len(disk) : disk[i].val # None /\ disk[i].stamp # None
    /\ ret.op \in {"get", "legacy_get"}
    /\ ret.allow_stale
    /\ ret.refresh = "failed"
    /\ ret.kind = "Err"

\* The read that just ended went through every tier and found nothing it
\* may return: its refresh brought no value, and it holds no stale
\* candidate or may not return one.
TiersExhausted ==
    /\ ret.refresh = "failed"
    /\ ret.allow_stale => (ret.mem = None /\ ret.dsk = None)

\* C26, as first stated: a directory that cannot be read, a file that does
\* not parse, a failed request and a body that does not parse each count as
\* a tier that found nothing, and get_data_or_error returns an error only
\* after every tier was exhausted without a value it may return.
C26_Original_ErrorOnlyAfterExhaustion ==
    (ret.op = "get" /\ ret.kind = "Err") => TiersExhausted

\* C26, amended: a directory that cannot be read, a file that does not
\* parse, a failed request and a body that does not parse each count as a
\* tier that found nothing; get_data_or_error returns an error only after
\* every tier was exhausted without a value it may return, or when the lock
\* of the slot is poisoned, or when the value it fetched cannot be written
\* to disk.
C26_ErrorOnlyWhenNothingToReturn ==
    (ret.op = "get" /\ ret.kind = "Err") =>
        \/ TiersExhausted /\ ret.err \in {"FreshingData", "StaleInternalNone"}
        \/ ret.err = "CacheLock"
        \/ ret.err = "Io" /\ ret.refresh = "ok"

\* A read with allow_stale = true failed only after its fetch had failed
\* too: the one file of the directory did not parse and gave no candidate.
C26_Witness_UnparseableFileIsNothing ==
    /\ reader = "remote"
    /\ file_type = "Json"
    /\ Len(disk) = 1
    /\ disk[1].stamp # None
    /\ disk[1].val = None
    /\ ret.op = "get"
    /\ ret.allow_stale
    /\ ret.refresh = "failed"
    /\ ret.kind = "Err"
    /\ ret.err = "StaleInternalNone"

\* ------------------------------------------ traits.rs: is_fresh
\* ResourceState::is_internal_data_fresh and is_disk_cached_data_fresh are
\* called by is_fresh and defined in no source file; they are taken from
\* the freshness the specification gives to the two tiers: the slot holds a
\* value whose timestamp is fresh, the first file that parses carries a
\* timestamp that is fresh.
is_internal_data_fresh(c, t, ttl) ==
    c.data # None /\ IsFresh(c.timestamp, t, ttl)

is_disk_cached_data_fresh(d, ft, t, ttl) ==
    LET e == FirstParsed(d, ft, 1)
    IN  e.some /\ IsFresh(e.timestamp, t, ttl)

\* Ok(!self.is_marked_stale()? || is_internal_data_fresh()? ||
\* is_disk_cached_data_fresh()?)
is_fresh(c, d, ft, t, ttl) ==
    \/ ~is_marked_stale(c)
    \/ is_internal_data_fresh(c, t, ttl)
    \/ is_disk_cached_data_fresh(d, ft, t, ttl)

\* ResourceReader::is_fresh, called between the reads.
IsFreshCall ==
    /\ Base
    /\ lock # "held"
    /\ ret' = [NoRet EXCEPT
                  !.op = "is_fresh",
                  !.kind = IF lock = "poisoned" THEN "Err"
                           ELSE IF is_fresh(cache, disk, file_type, now, timeout)
                           THEN "True" ELSE "False",
                  !.err = IF lock = "poisoned" THEN "CacheLock" ELSE ""]
    /\ UNCHANGED <<reader, file_type, timeout, now, cache, lock, disk, pc, call,
                   mark_done, past>>

NextFresh ==
    \/ IsFreshCall
    \/ MarkAsStale
    \/ Tick
    \/ Rollback

SpecFresh == Init /\ [][NextFresh]_vars

\* C27, as the specification states it: is_fresh answers true only for a
\* resource that is not force-marked stale and has a value fresh by its
\* timeout in memory or on disk.  The code does not do this: it answers
\* true for every resource that is not force-marked, and for a force-marked
\* one whose value is within the timeout.
C27_FreshOnlyUnmarkedWithFreshTier ==
    (ret.op = "is_fresh" /\ ret.kind = "True") =>
        /\ ~cache.is_stale
        /\ \/ is_internal_data_fresh(cache, now, timeout)
           \/ is_disk_cached_data_fresh(disk, file_type, now, timeout)

\* C28, as the specification states it: once a mark_as_stale has returned,
\* the flag stays set until a refresh that began after the mark installs
\* its value; a refresh that fetched its value before the mark never clears
\* the flag.  So the step that clears the flag ends the fetch of a call that
\* began when a mark_as_stale had returned.  The code of Remote does not do
\* this: set_current_member clears the flag whenever it writes.
C28_MarkNotLostToRefresh ==
    [][(cache.is_stale /\ ~cache'.is_stale) =>
           \E c \in Callers :
               /\ pc[c] = "fetching"
               /\ pc'[c] = "idle"
               /\ call[c].after_mark]_vars

\* C29: the remote readers persist before they install.  A call that ends
\* with the error of the disk write leaves the slot, its flag and its lock
\* as they were, and the directory too; and in the step in which a call
\* comes to install the value v it fetched (it returns v as Fresh, or hangs
\* in or is thrown out of set_internal_cache), the directory already holds
\* the file of the resource with v in it.
C29_PersistThenInstall ==
    [][/\ (ret'.op \in {"get", "legacy_get"} /\ ret'.err = "Io") =>
              /\ ret'.kind = "Err"
              /\ cache' = cache
              /\ lock' = lock
              /\ disk' = disk
       /\ \A c \in Callers :
              (/\ reader \in {"remote", "legacy"}
               /\ pc[c] = "fetching"
               /\ \/ pc'[c] \in {"hung", "blocked"}
                  \/ pc'[c] = "idle" /\ ret'.via = "refresh") =>
                  /\ PlainCount(disk') = 1
                  /\ disk'[PlainIndex(disk')].val =
                         IF pc'[c] = "idle" THEN ret'.val ELSE call'[c].fresh]_vars

\* A fetch brought a value for a slot that holds a value marked stale, the
\* disk write failed, and the call ended with that error: the slot still
\* holds its value, marked.
C29_Witness_WriteFailedSlotKept ==
    /\ reader \in {"remote", "legacy"}
    /\ ret.op \in {"get", "legacy_get"}
    /\ ret.kind = "Err"
    /\ ret.err = "Io"
    /\ ret.refresh = "ok"
    /\ ret.after_mark
    /\ cache.data # None
    /\ cache.is_stale

\* C30: a read of a remote reader that is answered Fresh from the disk tier
\* leaves the slot as it was, value, flag and timestamp: the value of the
\* file is returned and not installed, and a read that follows in the same
\* state is answered by the disk tier again.
C30_DiskHitLeavesSlot ==
    [][(/\ reader \in {"remote", "legacy"}
        /\ ret'.op \in {"get", "legacy_get"}
        /\ ret'.refresh = "none"
        /\ ret'.kind = "Fresh"
        /\ ret'.via = "disk") =>
           /\ cache' = cache
           /\ lock' = lock
           /\ disk' = disk
           /\ reader = "remote" =>
                 RemoteProbe(cache', disk', file_type, now', timeout).res
                     = Fresh(ret'.val, "disk")
           /\ reader = "legacy" =>
                 \E o \in Overflow :
                     Remote_probe(cache', disk', file_type, now', timeout, o).res
                         = Fresh(ret'.val, "disk")]_vars

\* A read was answered Fresh from the disk tier, and the slot does not hold
\* the value it returned.
C30_Witness_ServedFromDiskNotInstalled ==
    /\ reader \in {"remote", "legacy"}
    /\ ret.op \in {"get", "legacy_get"}
    /\ ret.refresh = "none"
    /\ ret.kind = "Fresh"
    /\ ret.via = "disk"
    /\ cache.data # ret.val

\* C31, as the specification states it: a step of a get_data_or_error of
\* DefaultLocalResourceReader or DefaultRemoteResourceReader changes the
\* slot (value, is_stale, timestamp) or the files of the directory only
\* when it ends the call with Fresh(v) after a refresh that brought v; a
\* call that ends with Stale or an error, or does not end, changes neither.
\* The code does not do this: the remote reader writes the file and then
\* hangs in, or is thrown out of, set_internal_cache.
C31_OnlyFreshRefreshModifies ==
    [][(/\ Base
        /\ ret'.op # "mark"
        /\ cache' # cache \/ disk' # disk) =>
           /\ ret'.op = "get"
           /\ ret'.kind = "Fresh"
           /\ ret'.via = "refresh"
           /\ ret'.refresh = "ok"]_vars

\* C32: a get_data_or_error of either reader that was called with
\* allow_stale = false returns Fresh(value) or an error, never Stale; a
\* result that is Fresh or Stale carries a value, whatever allow_stale; and
\* a call whose tiers are all exhausted (its refresh brought nothing, and it
\* holds no stale candidate or may not return one) ends with an error that
\* carries no value.
C32_NoStaleUnaskedNoEmptySuccess ==
    (Base /\ ret.op = "get" /\ ret.kind # "Panic") =>
        /\ ~ret.allow_stale => ret.kind \in {"Fresh", "Err"}
        /\ ret.kind \in {"Fresh", "Stale"} => ret.val \in Values
        /\ TiersExhausted => (ret.kind = "Err" /\ ret.val = None)

\* A local read with allow_stale = false found a stale value in the slot
\* and nothing to load in the directory: it ended with an error and did not
\* hand the stale value over.
C32_Witness_StaleCandidateWithheld ==
    /\ reader = "local"
    /\ ret.op = "get"
    /\ ~ret.allow_stale
    /\ ret.refresh = "failed"
    /\ ret.mem \in Values
    /\ ret.mem = cache.data
    /\ ret.kind = "Err"
    /\ ret.val = None

\* The slot a mark_as_stale leaves that finds the slot c and the lock lk.
SlotAfterMark(c, lk) ==
    IF lk = "poisoned" THEN c
    ELSE IF reader = "legacy" THEN Remote_mark_stale(c)
    ELSE mark_stale(c)

\* C33: a mark_as_stale that returns has changed nothing but the force-stale
\* flag: the slot's value and timestamp, the lock, the directory and the
\* calls in flight are as before the call; it returns () whether the slot
\* holds a value or not, with the flag set when the lock is healthy; and a
\* second call made in the state it leaves would leave that same state.
C33_MarkChangesOnlyFlag ==
    [][(ret'.op = "mark") =>
           /\ ret'.kind = "Unit"
           /\ cache'.data = cache.data
           /\ cache'.timestamp = cache.timestamp
           /\ lock = "free" => cache'.is_stale
           /\ lock' = lock
           /\ disk' = disk
           /\ pc' = pc
           /\ call' = call
           /\ SlotAfterMark(cache', lock') = cache']_vars

\* A second mark_as_stale has returned on a slot that holds no value: the
\* slot is still empty, and marked.
C33_Witness_MarkedTwiceEmptySlot ==
    /\ ret.op = "mark"
    /\ ret.kind = "Unit"
    /\ ret.after_mark
    /\ lock = "free"
    /\ cache.data = None
    /\ cache.is_stale

=============================================================================
